---- MODULE Spec2Model ----
(***************************************************************************)
(* A model of the Auto Close Tabs extension (src/src/extension.ts).        *)
(*                                                                         *)
(* The extension keeps an age counter per open editor tab, increments the  *)
(* counters on a periodic timer, closes tabs whose counter reached the     *)
(* configured age, and lets the user switch that behaviour on and off per  *)
(* workspace through two override lists kept in the settings.              *)
(*                                                                         *)
(* extension.ts is modelled statement by statement.  The modules it        *)
(* imports (./settings, ./autoclosetabs, ./common) are modelled from       *)
(* spec.md: the settings store, the age ledger and the closing policy.     *)
(***************************************************************************)
EXTENDS Integers, Sequences, FiniteSets, TLC

(***************************************************************************)
(* Bounds of the model.                                                    *)
(***************************************************************************)
\* Longest override list a command appends to outside the scripted scenarios,
\* and longest list a scripted scenario starts from.
MaxList == 2
\* Most setting writes of updateSettingValue that may be in flight at once.
MaxWrites == 1
\* Number of tab identities of the host.
MaxTabs == 3
\* Number of tab groups of the host window.
NumGroups == 2
\* Largest age counter (and largest configured age threshold), in ticks.
MaxAge == 2
\* Most timers running at once.
MaxTimers == 2

(***************************************************************************)
(* Values.                                                                 *)
(***************************************************************************)
\* undefined / null
Null == <<>>

\* A URI in its toString() form, kept as <<scheme, rest>>.
SavedWorkspaceFile == <<"file", "/home/project.code-workspace">>
UntitledWorkspaceFile == <<"untitled", "Untitled-1">>
FolderA == <<"file", "/home/a">>
FolderB == <<"file", "/home/b">>

\* String.prototype.startsWith("untitled:") on a URI string.
startsWithUntitled(uriString) == uriString[1] = "untitled"

\* The setting names.
ActivationSection == "autoclosetabs.activation"
ExcludedSection == "autoclosetabs.excludedWorkspaces"
IncludedSection == "autoclosetabs.includedWorkspaces"
TabAgeSection == "autoclosetabs.tabAgeForAutomaticClosing"

ActivationValues == {"everywhere-except-excluded", "nowhere-except-included"}

\* The identifiers an override list may hold.
ListIds == {SavedWorkspaceFile, FolderA}

Range(s) == {s[i] : i \in DOMAIN s}

IsDuplicateFree(s) == \A i, j \in DOMAIN s : s[i] = s[j] => i = j

\* Every list of identifiers of at most n entries.
ListsUpTo(n) == UNION {[1..k -> ListIds] : k \in 0..n}

\* The lists a user writes into the settings: no identifier twice.
UserLists == {s \in ListsUpTo(Cardinality(ListIds)) : IsDuplicateFree(s)}

\* The information messages of the two commands.
NoMessage == "none"
CannotActivateMessage == "Auto Close Tabs cannot be activated in a temporary workspace."
CannotDeactivateMessage == "Auto Close Tabs cannot be deactivated in a temporary workspace."

(***************************************************************************)
(* State.                                                                  *)
(***************************************************************************)
VARIABLES
    \* the settings store (the effective values getSettingValue reads)
    activation,
    excludedWorkspaces,
    includedWorkspaces,
    tabAgeForAutomaticClosing,
    \* vscode.workspace
    workspaceFile,
    workspaceFolders,
    \* setting writes of updateSettingValue not yet applied by the host
    pendingWrites,
    \* setting sections whose change notification is not yet delivered
    configEvents,
    \* the context key "autoclosetabs.activeInWorkspace" (FALSE until set)
    activeInWorkspace,
    \* the information message shown by the last command, if any
    informationMessage,
    \* the module-level timer handle: "unset", "running" or "cleared"
    interval,
    \* the timers setInterval started that no clearInterval has stopped
    liveTimers,
    \* vscode.window.tabGroups.all: per group, the open tabs in order
    tabGroups,
    \* the age ledger: tab -> age counter
    tabTimeCounters,
    \* history: per open tab, the ticks since its last opened/changed event
    ticksSinceEvent,
    \* what the last step did if it was a timer tick or the "close unused
    \* tabs" command: whether it ran a closing pass, with which threshold, and
    \* the tabs the pass asked the host to close; then the host's answers:
    \* closed keeps the requests not yet answered, honoured and rejected the
    \* tabs of the requests answered; retry holds, after a tick, the tabs whose
    \* request was rejected before that tick
    lastPass,
    \* position and snapshot of the scripted scenarios
    scriptPc,
    scriptOrig

settingVars == <<activation, excludedWorkspaces, includedWorkspaces, tabAgeForAutomaticClosing>>
workspaceVars == <<workspaceFile, workspaceFolders>>
timerVars == <<interval, liveTimers>>
tabVars == <<tabGroups, tabTimeCounters, ticksSinceEvent>>
scriptVars == <<scriptPc, scriptOrig>>
vars == <<activation, excludedWorkspaces, includedWorkspaces, tabAgeForAutomaticClosing,
          workspaceFile, workspaceFolders, pendingWrites, configEvents,
          activeInWorkspace, informationMessage, interval, liveTimers, tabGroups,
          tabTimeCounters, ticksSinceEvent, lastPass,
          scriptPc, scriptOrig>>

NoPass == [by |-> "none", ran |-> FALSE, threshold |-> 0, closed |-> {},
           rejected |-> {}, honoured |-> {}, retry |-> {}]

(***************************************************************************)
(* ./settings (modelled from spec.md, section 6: "Configuration store").   *)
(***************************************************************************)
getSettingValue(section) ==
    CASE section = ActivationSection -> activation
      [] section = ExcludedSection -> excludedWorkspaces
      [] section = IncludedSection -> includedWorkspaces
      [] section = TabAgeSection -> tabAgeForAutomaticClosing

\* The write is handed to the host; the store changes when the host applies it.
updateSettingValue(section, value) ==
    pendingWrites' = Append(pendingWrites, <<section, value>>)

\* The store with `section` set to `value`.
StoreSet(section, value) ==
    /\ activation' = IF section = ActivationSection THEN value ELSE activation
    /\ excludedWorkspaces' = IF section = ExcludedSection THEN value ELSE excludedWorkspaces
    /\ includedWorkspaces' = IF section = IncludedSection THEN value ELSE includedWorkspaces
    /\ tabAgeForAutomaticClosing' =
           IF section = TabAgeSection THEN value ELSE tabAgeForAutomaticClosing

(***************************************************************************)
(* extension.ts: the workspace identifier and the activation resolver.     *)
(***************************************************************************)
\* Mutant: the test for an untitled workspace file is left out.
getWorkspaceUriOf_UntitledAccepted(wsFile, wsFolders) ==
    IF wsFile # Null
    THEN wsFile
    ELSE IF Len(wsFolders) = 1
         THEN wsFolders[1]
         ELSE Null

getWorkspaceUriOf(wsFile, wsFolders) ==
    IF wsFile # Null /\ ~startsWithUntitled(wsFile)
    THEN wsFile
    ELSE IF Len(wsFolders) = 1
         THEN wsFolders[1]
         ELSE Null

getWorkspaceUri == getWorkspaceUriOf(workspaceFile, workspaceFolders)

isActiveByDefaultOf(activationValue) == activationValue # "nowhere-except-included"

isActiveByDefault == isActiveByDefaultOf(getSettingValue(ActivationSection))

\* Array.prototype.includes
includes(list, x) == \E i \in DOMAIN list : list[i] = x

\* Array.prototype.filter((w) => w !== x)
filterOut(list, x) == SelectSeq(list, LAMBDA w : w # x)

\* Mutant: the default-active branch looks the identifier up in the wrong list.
isActiveInWorkspaceOf_WrongList(workspaceUri, activeByDefault, excluded, included) ==
    IF activeByDefault
    THEN IF workspaceUri = Null
         THEN TRUE
         ELSE ~includes(included, workspaceUri)
    ELSE IF workspaceUri = Null
         THEN FALSE
         ELSE includes(included, workspaceUri)

\* Mutant: the default-inactive branch answers a missing identifier as the
\* default-active branch does.
isActiveInWorkspaceOf_NullActive(workspaceUri, activeByDefault, excluded, included) ==
    IF activeByDefault
    THEN IF workspaceUri = Null
         THEN TRUE
         ELSE ~includes(excluded, workspaceUri)
    ELSE IF workspaceUri = Null
         THEN TRUE
         ELSE includes(included, workspaceUri)

isActiveInWorkspaceOf(workspaceUri, activeByDefault, excluded, included) ==
    IF activeByDefault
    THEN IF workspaceUri = Null
         THEN TRUE
         ELSE ~includes(excluded, workspaceUri)
    ELSE IF workspaceUri = Null
         THEN FALSE
         ELSE includes(included, workspaceUri)

isActiveInWorkspace ==
    isActiveInWorkspaceOf(getWorkspaceUri, isActiveByDefault,
                          getSettingValue(ExcludedSection),
                          getSettingValue(IncludedSection))

\* executeCommand("setContext", "autoclosetabs.activeInWorkspace", ...)
setActiveInWorkspaceState == activeInWorkspace' = isActiveInWorkspace

(***************************************************************************)
(* extension.ts: the commands "autoclosetabs.activate" and                 *)
(* "autoclosetabs.deactivate".                                             *)
(***************************************************************************)
\* Mutant: the check for a missing identifier is left out.
activateInWorkspace_NoNullCheck ==
    LET workspaceUri == getWorkspaceUri IN
    /\ informationMessage' = NoMessage
    /\ IF isActiveByDefault
       THEN updateSettingValue(ExcludedSection,
                filterOut(getSettingValue(ExcludedSection), workspaceUri))
       ELSE updateSettingValue(IncludedSection,
                Append(getSettingValue(IncludedSection), workspaceUri))

\* The list without the first entry equal to x.
RECURSIVE removeFirst(_, _)
removeFirst(list, x) ==
    IF list = <<>> THEN <<>>
    ELSE IF Head(list) = x THEN Tail(list)
    ELSE <<Head(list)>> \o removeFirst(Tail(list), x)

\* Mutant: in default-active mode only the first entry of the identifier is
\* taken out of excluded-workspaces.
activateInWorkspace_RemovesFirstOnly ==
    LET workspaceUri == getWorkspaceUri IN
    IF workspaceUri = Null
    THEN /\ informationMessage' = CannotActivateMessage
         /\ UNCHANGED pendingWrites
    ELSE /\ informationMessage' = NoMessage
         /\ IF isActiveByDefault
            THEN updateSettingValue(ExcludedSection,
                     removeFirst(getSettingValue(ExcludedSection), workspaceUri))
            ELSE updateSettingValue(IncludedSection,
                     Append(getSettingValue(IncludedSection), workspaceUri))

activateInWorkspace ==
    LET workspaceUri == getWorkspaceUri IN
    IF workspaceUri = Null
    THEN /\ informationMessage' = CannotActivateMessage
         /\ UNCHANGED pendingWrites
    ELSE /\ informationMessage' = NoMessage
         /\ IF isActiveByDefault
            THEN updateSettingValue(ExcludedSection,
                     filterOut(getSettingValue(ExcludedSection), workspaceUri))
            ELSE updateSettingValue(IncludedSection,
                     Append(getSettingValue(IncludedSection), workspaceUri))

\* Mutant: in default-inactive mode the identifier is not filtered out.
deactivateInWorkspace_KeepsIncluded ==
    LET workspaceUri == getWorkspaceUri IN
    IF workspaceUri = Null
    THEN /\ informationMessage' = CannotDeactivateMessage
         /\ UNCHANGED pendingWrites
    ELSE /\ informationMessage' = NoMessage
         /\ IF isActiveByDefault
            THEN updateSettingValue(ExcludedSection,
                     Append(getSettingValue(ExcludedSection), workspaceUri))
            ELSE updateSettingValue(IncludedSection,
                     getSettingValue(IncludedSection))

\* Mutant: in default-active mode the identifier replaces the excluded list.
deactivateInWorkspace_ReplacesList ==
    LET workspaceUri == getWorkspaceUri IN
    IF workspaceUri = Null
    THEN /\ informationMessage' = CannotDeactivateMessage
         /\ UNCHANGED pendingWrites
    ELSE /\ informationMessage' = NoMessage
         /\ IF isActiveByDefault
            THEN updateSettingValue(ExcludedSection, <<workspaceUri>>)
            ELSE updateSettingValue(IncludedSection,
                     filterOut(getSettingValue(IncludedSection), workspaceUri))

deactivateInWorkspace ==
    LET workspaceUri == getWorkspaceUri IN
    IF workspaceUri = Null
    THEN /\ informationMessage' = CannotDeactivateMessage
         /\ UNCHANGED pendingWrites
    ELSE /\ informationMessage' = NoMessage
         /\ IF isActiveByDefault
            THEN updateSettingValue(ExcludedSection,
                     Append(getSettingValue(ExcludedSection), workspaceUri))
            ELSE updateSettingValue(IncludedSection,
                     filterOut(getSettingValue(IncludedSection), workspaceUri))

(***************************************************************************)
(* extension.ts: the onDidChangeConfiguration listener.  `affected` is the *)
(* set of sections for which affectsConfiguration answers true.            *)
(***************************************************************************)
\* Mutant: a change of includedWorkspaces alone is not noticed.
onDidChangeConfiguration_MissesIncluded(affected) ==
    IF \/ ActivationSection \in affected
       \/ ExcludedSection \in affected
    THEN setActiveInWorkspaceState
    ELSE UNCHANGED activeInWorkspace

onDidChangeConfiguration(affected) ==
    IF \/ ActivationSection \in affected
       \/ ExcludedSection \in affected
       \/ IncludedSection \in affected
    THEN setActiveInWorkspaceState
    ELSE UNCHANGED activeInWorkspace

(***************************************************************************)
(* The host's tabs.  A tab identity is a number; tab t lives in group      *)
(* GroupOf(t), and a group lists its open tabs in ascending order.         *)
(***************************************************************************)
TabIds == 1..MaxTabs
GroupIds == 1..NumGroups
GroupOf(t) == ((t - 1) % NumGroups) + 1

RECURSIVE SortedSeq(_)
SortedSeq(S) ==
    IF S = {} THEN <<>>
    ELSE LET m == CHOOSE x \in S : \A y \in S : x <= y
         IN <<m>> \o SortedSeq(S \ {m})

\* The tab groups in which exactly the tabs of `open` are open.
GroupsOf(open) == [g \in GroupIds |-> SortedSeq({t \in open : GroupOf(t) = g})]

RECURSIVE Flatten(_, _)
Flatten(groups, g) ==
    IF g > NumGroups THEN <<>> ELSE groups[g] \o Flatten(groups, g + 1)

\* tabGroups.all.forEach((tabGroup) => tabGroup.tabs.forEach(...)): the order
\* in which the nested loops visit the tabs.
AllTabs == Flatten(tabGroups, 1)

OpenTabs == Range(AllTabs)

(***************************************************************************)
(* ./autoclosetabs (modelled from spec.md, sections 4.1 and 4.2).          *)
(***************************************************************************)
resetTabTimeCounter(counters, tab) ==
    [t \in DOMAIN counters \cup {tab} |-> IF t = tab THEN 0 ELSE counters[t]]

removeTabTimeCounter(counters, tab) ==
    [t \in DOMAIN counters \ {tab} |-> counters[t]]

incrementTabTimeCounter(counters, tab) ==
    IF tab \in DOMAIN counters
    THEN [counters EXCEPT ![tab] = @ + 1]
    ELSE counters

\* The first tab of `tabs` whose age counter is smallest.
\* tabs.forEach((tab) => resetTabTimeCounter(tab, context))
RECURSIVE forEachReset(_, _)
forEachReset(tabs, counters) ==
    IF tabs = <<>> THEN counters
    ELSE forEachReset(Tail(tabs), resetTabTimeCounter(counters, Head(tabs)))

\* tabs.forEach((tab) => removeTabTimeCounter(tab, context))
RECURSIVE forEachRemove(_, _)
forEachRemove(tabs, counters) ==
    IF tabs = <<>> THEN counters
    ELSE forEachRemove(Tail(tabs), removeTabTimeCounter(counters, Head(tabs)))

\* tabs.forEach((tab) => incrementTabTimeCounter(tab, context))
RECURSIVE forEachIncrement(_, _)
forEachIncrement(tabs, counters) ==
    IF tabs = <<>> THEN counters
    ELSE forEachIncrement(Tail(tabs), incrementTabTimeCounter(counters, Head(tabs)))

FirstYoungest(tabs, counters) ==
    LET i == CHOOSE k \in DOMAIN tabs :
                 /\ \A j \in DOMAIN tabs : counters[tabs[k]] <= counters[tabs[j]]
                 /\ \A j \in 1..(k - 1) : counters[tabs[j]] > counters[tabs[k]]
    IN tabs[i]

\* closeTabs(threshold, context): the tabs a closing pass asks the host to close.
\* Mutant: every candidate is closed, also when that leaves no tab open.
closeTabs_NoSurvivor(threshold, tabs, counters) ==
    {t \in Range(tabs) : t \in DOMAIN counters /\ counters[t] >= threshold}

closeTabs(threshold, tabs, counters) ==
    LET candidates == {t \in Range(tabs) :
                          t \in DOMAIN counters /\ counters[t] >= threshold}
    IN IF candidates # {} /\ candidates = Range(tabs)
       THEN candidates \ {FirstYoungest(tabs, counters)}
       ELSE candidates

(***************************************************************************)
(* Initial states: the extension is loaded and activate() has not run.     *)
(***************************************************************************)
WorkspaceFiles == {Null, UntitledWorkspaceFile, SavedWorkspaceFile}
WorkspaceFolderLists == {<<>>, <<FolderA>>, <<FolderA, FolderB>>}

EmptyLedger == [t \in {} |-> 0]

\* The program's state before activate(), the override lists drawn from `lists`.
InitProgram(lists) ==
    /\ activation \in ActivationValues
    /\ excludedWorkspaces \in lists
    /\ includedWorkspaces \in lists
    /\ tabAgeForAutomaticClosing \in 0..MaxAge
    /\ workspaceFile \in WorkspaceFiles
    /\ workspaceFolders \in WorkspaceFolderLists
    \* several folders are open only in a (saved or untitled) workspace
    /\ workspaceFile = Null => Len(workspaceFolders) <= 1
    /\ pendingWrites = <<>>
    /\ configEvents = {}
    /\ activeInWorkspace = FALSE
    /\ informationMessage = NoMessage
    /\ interval = "unset"
    /\ liveTimers = 0
    /\ \E open \in SUBSET TabIds : tabGroups = GroupsOf(open)
    /\ tabTimeCounters = EmptyLedger
    /\ ticksSinceEvent = EmptyLedger
    /\ lastPass = NoPass

Init ==
    /\ InitProgram(UserLists)
    /\ scriptPc = "off"
    /\ scriptOrig = <<>>

\* The commands and listeners are registered and not yet disposed.
Running == interval = "running"

(***************************************************************************)
(* extension.ts: activate(context) and deactivate().                       *)
(***************************************************************************)
\* tabGroups.all.forEach(... resetTabTimeCounter(tab, context))
startupScan == tabTimeCounters' = forEachReset(AllTabs, tabTimeCounters)

\* interval = setInterval(...): a new timer runs and the variable holds its
\* handle; the handle it held before is dropped, not cleared.
setInterval ==
    /\ interval' = "running"
    /\ liveTimers' = liveTimers + 1

\* clearInterval(interval): stops the timer whose handle the variable holds;
\* nothing happens for undefined or for a handle already cleared.
clearInterval ==
    IF interval = "running"
    THEN /\ interval' = "cleared"
         /\ liveTimers' = liveTimers - 1
    ELSE UNCHANGED timerVars

\* export function activate(context)
activate ==
    /\ setActiveInWorkspaceState
    /\ startupScan
    /\ setInterval

\* export function deactivate()
deactivate == clearInterval

\* The host activates the extension, once.
ExtensionActivate ==
    /\ interval = "unset"
    /\ activate
    /\ ticksSinceEvent' = [t \in OpenTabs |-> 0]
    /\ informationMessage' = NoMessage
    /\ lastPass' = NoPass
    /\ UNCHANGED <<settingVars, workspaceVars, pendingWrites, configEvents, tabGroups>>

\* The host shuts the activated extension down.
ExtensionDeactivate ==
    /\ interval = "running"
    /\ deactivate
    /\ informationMessage' = NoMessage
    /\ lastPass' = NoPass
    /\ UNCHANGED <<settingVars, workspaceVars, pendingWrites, configEvents,
                   activeInWorkspace, tabVars>>

(***************************************************************************)
(* The activation commands, the host applying a setting write, the user    *)
(* editing a setting, and the delivery of change notifications.            *)
(***************************************************************************)
\* The list the command would append to has fewer than MaxList entries: the
\* unscripted specifications let the commands run only then.
AppendFits(activating) ==
    \/ getWorkspaceUri = Null
    \/ IF isActiveByDefault = activating
       THEN TRUE
       ELSE Len(IF activating THEN includedWorkspaces ELSE excludedWorkspaces) < MaxList

\* Fewer than MaxWrites setting writes are in flight: the unscripted
\* specifications let the commands run only then.
WriteFits == Len(pendingWrites) < MaxWrites

ActivateCommand ==
    /\ Running
    /\ activateInWorkspace
    /\ lastPass' = NoPass
    /\ UNCHANGED <<settingVars, workspaceVars, configEvents, activeInWorkspace,
                   timerVars, tabVars>>

DeactivateCommand ==
    /\ Running
    /\ deactivateInWorkspace
    /\ lastPass' = NoPass
    /\ UNCHANGED <<settingVars, workspaceVars, configEvents, activeInWorkspace,
                   timerVars, tabVars>>

\* The host applies the oldest write in flight and announces the change.
SettingWriteApplied ==
    /\ pendingWrites # <<>>
    /\ StoreSet(Head(pendingWrites)[1], Head(pendingWrites)[2])
    /\ pendingWrites' = Tail(pendingWrites)
    /\ configEvents' = configEvents \cup {Head(pendingWrites)[1]}
    /\ informationMessage' = NoMessage
    /\ lastPass' = NoPass
    /\ UNCHANGED <<workspaceVars, activeInWorkspace, timerVars, tabVars>>

SettingValues(section) ==
    CASE section = ActivationSection -> ActivationValues
      [] section = ExcludedSection -> UserLists
      [] section = IncludedSection -> UserLists
      [] section = TabAgeSection -> 0..MaxAge

\* The user changes a setting in the settings editor.
UserEditsSetting(section) ==
    /\ Running
    /\ \E value \in SettingValues(section) :
           /\ value # getSettingValue(section)
           /\ StoreSet(section, value)
    /\ configEvents' = configEvents \cup {section}
    /\ informationMessage' = NoMessage
    /\ lastPass' = NoPass
    /\ UNCHANGED <<workspaceVars, pendingWrites, activeInWorkspace, timerVars, tabVars>>

\* The host delivers one change event for some of the changed sections.
ConfigurationChanged ==
    /\ Running
    /\ \E affected \in (SUBSET configEvents) \ {{}} :
           /\ onDidChangeConfiguration(affected)
           /\ configEvents' = configEvents \ affected
    /\ informationMessage' = NoMessage
    /\ lastPass' = NoPass
    /\ UNCHANGED <<settingVars, workspaceVars, pendingWrites, timerVars, tabVars>>

(***************************************************************************)
(* extension.ts: the onDidChangeTabs listener, the timer callback and the  *)
(* command "autoclosetabs.closeUnusedTabs".                                *)
(***************************************************************************)
\* opened, changed and closed are the event's three lists of tabs.
\* Mutant: the changed tabs are not reset.
onDidChangeTabs_IgnoresChanged(opened, changed, closed) ==
    tabTimeCounters' =
        forEachRemove(closed, forEachReset(opened, tabTimeCounters))

onDidChangeTabs(opened, changed, closed) ==
    tabTimeCounters' =
        forEachRemove(closed, forEachReset(opened \o changed, tabTimeCounters))

\* The callback handed to setInterval.
\* Mutant: the callback trusts the published flag instead of resolving anew.
onInterval_UsesPublishedFlag ==
    LET incremented == forEachIncrement(AllTabs, tabTimeCounters) IN
    /\ tabTimeCounters' = incremented
    /\ IF activeInWorkspace
       THEN LET threshold == getSettingValue(TabAgeSection)
                toClose == closeTabs(threshold, AllTabs, incremented)
            IN lastPass' = [by |-> "timer", ran |-> TRUE,
                            threshold |-> threshold, closed |-> toClose,
                            rejected |-> {}, honoured |-> {}, retry |-> lastPass.rejected]
       ELSE lastPass' = [by |-> "timer", ran |-> FALSE, threshold |-> 0, closed |-> {},
                         rejected |-> {}, honoured |-> {}, retry |-> lastPass.rejected]

\* Mutant: the closing pass reads the ages before they are incremented.
onInterval_ClosesBeforeIncrement ==
    LET incremented == forEachIncrement(AllTabs, tabTimeCounters) IN
    /\ tabTimeCounters' = incremented
    /\ IF isActiveInWorkspace
       THEN LET threshold == getSettingValue(TabAgeSection)
                toClose == closeTabs(threshold, AllTabs, tabTimeCounters)
            IN lastPass' = [by |-> "timer", ran |-> TRUE,
                            threshold |-> threshold, closed |-> toClose,
                            rejected |-> {}, honoured |-> {}, retry |-> lastPass.rejected]
       ELSE lastPass' = [by |-> "timer", ran |-> FALSE, threshold |-> 0, closed |-> {},
                         rejected |-> {}, honoured |-> {}, retry |-> lastPass.rejected]

\* Mutant: the timer's pass is run with threshold 0 instead of the configured age.
onInterval_IgnoresAge ==
    LET incremented == forEachIncrement(AllTabs, tabTimeCounters) IN
    /\ tabTimeCounters' = incremented
    /\ IF isActiveInWorkspace
       THEN LET toClose == closeTabs(0, AllTabs, incremented)
            IN lastPass' = [by |-> "timer", ran |-> TRUE,
                            threshold |-> 0, closed |-> toClose,
                            rejected |-> {}, honoured |-> {}, retry |-> lastPass.rejected]
       ELSE lastPass' = [by |-> "timer", ran |-> FALSE, threshold |-> 0, closed |-> {},
                         rejected |-> {}, honoured |-> {}, retry |-> lastPass.rejected]

\* Mutant: the pass deletes the counters of the tabs it asks to close.
onInterval_DeletesOptimistically ==
    LET incremented == forEachIncrement(AllTabs, tabTimeCounters) IN
    IF isActiveInWorkspace
    THEN LET threshold == getSettingValue(TabAgeSection)
             toClose == closeTabs(threshold, AllTabs, incremented)
         IN /\ tabTimeCounters' = forEachRemove(SortedSeq(toClose), incremented)
            /\ lastPass' = [by |-> "timer", ran |-> TRUE,
                            threshold |-> threshold, closed |-> toClose,
                            rejected |-> {}, honoured |-> {}, retry |-> lastPass.rejected]
    ELSE /\ tabTimeCounters' = incremented
         /\ lastPass' = [by |-> "timer", ran |-> FALSE, threshold |-> 0, closed |-> {},
                         rejected |-> {}, honoured |-> {}, retry |-> lastPass.rejected]

\* Mutant: the ages are incremented only when the workspace resolves active.
onInterval_AgesOnlyWhenActive ==
    LET incremented == forEachIncrement(AllTabs, tabTimeCounters) IN
    IF isActiveInWorkspace
    THEN LET threshold == getSettingValue(TabAgeSection)
             toClose == closeTabs(threshold, AllTabs, incremented)
         IN /\ tabTimeCounters' = incremented
            /\ lastPass' = [by |-> "timer", ran |-> TRUE,
                            threshold |-> threshold, closed |-> toClose,
                            rejected |-> {}, honoured |-> {}, retry |-> lastPass.rejected]
    ELSE /\ UNCHANGED tabTimeCounters
         /\ lastPass' = [by |-> "timer", ran |-> FALSE, threshold |-> 0, closed |-> {},
                         rejected |-> {}, honoured |-> {}, retry |-> lastPass.rejected]

onInterval ==
    LET incremented == forEachIncrement(AllTabs, tabTimeCounters) IN
    /\ tabTimeCounters' = incremented
    /\ IF isActiveInWorkspace
       THEN LET threshold == getSettingValue(TabAgeSection)
                toClose == closeTabs(threshold, AllTabs, incremented)
            IN lastPass' = [by |-> "timer", ran |-> TRUE,
                            threshold |-> threshold, closed |-> toClose,
                            rejected |-> {}, honoured |-> {}, retry |-> lastPass.rejected]
       ELSE lastPass' = [by |-> "timer", ran |-> FALSE, threshold |-> 0, closed |-> {},
                         rejected |-> {}, honoured |-> {}, retry |-> lastPass.rejected]

\* The handler of "autoclosetabs.closeUnusedTabs".
\* Mutant: the command passes the configured age instead of 0.
closeUnusedTabs_ConfiguredAge ==
    LET threshold == getSettingValue(TabAgeSection)
        toClose == closeTabs(threshold, AllTabs, tabTimeCounters)
    IN lastPass' = [by |-> "command", ran |-> TRUE,
                    threshold |-> threshold, closed |-> toClose,
                    rejected |-> {}, honoured |-> {}, retry |-> {}]

\* Mutant: the command runs a pass only over tabs at least one tick old.
closeUnusedTabs_ThresholdOne ==
    LET toClose == closeTabs(1, AllTabs, tabTimeCounters) IN
    lastPass' = [by |-> "command", ran |-> TRUE, threshold |-> 1, closed |-> toClose,
                 rejected |-> {}, honoured |-> {}, retry |-> {}]

closeUnusedTabs ==
    LET toClose == closeTabs(0, AllTabs, tabTimeCounters) IN
    lastPass' = [by |-> "command", ran |-> TRUE, threshold |-> 0, closed |-> toClose,
                 rejected |-> {}, honoured |-> {}, retry |-> {}]

\* The host opens, changes and closes the given tabs and reports them in one
\* event.
TabsChangedBy(opened, changed, closed) ==
    /\ Running
    /\ opened \cup changed \cup closed # {}
    /\ tabGroups' = GroupsOf((OpenTabs \cup opened) \ closed)
    /\ onDidChangeTabs(SortedSeq(opened), SortedSeq(changed), SortedSeq(closed))
    /\ ticksSinceEvent' =
           [t \in (OpenTabs \cup opened) \ closed |->
               IF t \in opened \cup changed THEN 0 ELSE ticksSinceEvent[t]]
    /\ informationMessage' = NoMessage
    /\ lastPass' = NoPass
    /\ UNCHANGED <<settingVars, workspaceVars, pendingWrites, configEvents,
                   activeInWorkspace, timerVars>>

\* An event about any tabs.
TabsChanged ==
    \E opened \in SUBSET (TabIds \ OpenTabs), changed, closed \in SUBSET OpenTabs :
        TabsChangedBy(opened, changed, closed)

\* An event about one tab: it was opened, changed or closed.
OneTabChanged ==
    \E t \in TabIds :
        IF t \in OpenTabs
        THEN TabsChangedBy({}, {t}, {}) \/ TabsChangedBy({}, {}, {t})
        ELSE TabsChangedBy({t}, {}, {})

\* A running timer fires.
TimerTick ==
    /\ liveTimers > 0
    /\ \A t \in OpenTabs : ticksSinceEvent[t] < MaxAge
    /\ onInterval
    /\ ticksSinceEvent' = [t \in OpenTabs |-> ticksSinceEvent[t] + 1]
    /\ informationMessage' = NoMessage
    /\ UNCHANGED <<settingVars, workspaceVars, pendingWrites, configEvents,
                   activeInWorkspace, timerVars, tabGroups>>

CloseUnusedTabsCommand ==
    /\ Running
    /\ closeUnusedTabs
    /\ informationMessage' = NoMessage
    /\ UNCHANGED <<settingVars, workspaceVars, pendingWrites, configEvents,
                   activeInWorkspace, timerVars, tabVars>>

(***************************************************************************)
(* Specifications.                                                         *)
(***************************************************************************)
\* activate() is called, whatever was called before.
ActivateCalled ==
    /\ liveTimers < MaxTimers
    /\ activate
    /\ ticksSinceEvent' = [t \in OpenTabs |-> 0]
    /\ informationMessage' = NoMessage
    /\ lastPass' = NoPass
    /\ UNCHANGED <<settingVars, workspaceVars, pendingWrites, configEvents, tabGroups>>

\* deactivate() is called, whatever was called before.
DeactivateCalled ==
    /\ deactivate
    /\ informationMessage' = NoMessage
    /\ lastPass' = NoPass
    /\ UNCHANGED <<settingVars, workspaceVars, pendingWrites, configEvents,
                   activeInWorkspace, tabVars>>

\* The host answers a close request: it closes the tab and reports it closed.
HostClosesTab ==
    /\ Running
    /\ \E t \in lastPass.closed \cap OpenTabs :
           /\ tabGroups' = GroupsOf(OpenTabs \ {t})
           /\ onDidChangeTabs(<<>>, <<>>, <<t>>)
           /\ ticksSinceEvent' = [u \in OpenTabs \ {t} |-> ticksSinceEvent[u]]
           /\ lastPass' = [lastPass EXCEPT !.closed = @ \ {t},
                                           !.honoured = @ \cup {t},
                                           !.retry = {}]
    /\ informationMessage' = NoMessage
    /\ UNCHANGED <<settingVars, workspaceVars, pendingWrites, configEvents,
                   activeInWorkspace, timerVars>>

\* The host answers a close request: the tab stays open (the user cancelled
\* the save prompt), and no event is reported.
HostRejectsClose ==
    /\ Running
    /\ \E t \in lastPass.closed :
           lastPass' = [lastPass EXCEPT !.closed = @ \ {t},
                                        !.rejected = @ \cup {t},
                                        !.retry = {}]
    /\ informationMessage' = NoMessage
    /\ UNCHANGED <<settingVars, workspaceVars, pendingWrites, configEvents,
                   activeInWorkspace, timerVars, tabVars>>

Next ==
    \/ ExtensionActivate /\ UNCHANGED scriptVars
    \/ ExtensionDeactivate /\ UNCHANGED scriptVars
    \/ AppendFits(TRUE) /\ WriteFits /\ ActivateCommand /\ UNCHANGED scriptVars
    \/ AppendFits(FALSE) /\ WriteFits /\ DeactivateCommand /\ UNCHANGED scriptVars
    \/ SettingWriteApplied /\ UNCHANGED scriptVars
    \/ \E section \in {ActivationSection, ExcludedSection, IncludedSection, TabAgeSection} :
           UserEditsSetting(section) /\ UNCHANGED scriptVars
    \/ ConfigurationChanged /\ UNCHANGED scriptVars
    \/ TabsChanged /\ UNCHANGED scriptVars
    \/ TimerTick /\ UNCHANGED scriptVars
    \/ CloseUnusedTabsCommand /\ UNCHANGED scriptVars
    \/ HostClosesTab /\ UNCHANGED scriptVars
    \/ HostRejectsClose /\ UNCHANGED scriptVars

Spec == Init /\ [][Next]_vars

(***************************************************************************)
(* The activation side alone: no tab is open and the timer callback is     *)
(* left out, so only the settings, the commands and the published flag     *)
(* move.                                                                   *)
(***************************************************************************)
InitActivation ==
    /\ Init
    \* an empty window, a folder, an untitled and a saved two-folder workspace
    /\ Len(workspaceFolders) = (IF workspaceFile = Null THEN 1 ELSE 2)
           \/ (workspaceFile = Null /\ workspaceFolders = <<>>)
    /\ OpenTabs = {}
    /\ tabAgeForAutomaticClosing = 0

NextActivation ==
    \/ ExtensionActivate /\ UNCHANGED scriptVars
    \/ AppendFits(TRUE) /\ WriteFits /\ ActivateCommand /\ UNCHANGED scriptVars
    \/ AppendFits(FALSE) /\ WriteFits /\ DeactivateCommand /\ UNCHANGED scriptVars
    \/ SettingWriteApplied /\ UNCHANGED scriptVars
    \/ \E section \in {ActivationSection, ExcludedSection, IncludedSection} :
           UserEditsSetting(section) /\ UNCHANGED scriptVars
    \/ ConfigurationChanged /\ UNCHANGED scriptVars

SpecActivation == InitActivation /\ [][NextActivation]_vars

(***************************************************************************)
(* The age ledger and the closing policy alone: a folder is open, the      *)
(* override lists are empty and the settings stay as they are, so that the *)
(* timer's pass runs in default-active mode and never in default-inactive  *)
(* mode; the tabs, the timer and the command move.                         *)
(***************************************************************************)
InitLedger ==
    /\ Init
    /\ workspaceFile = Null
    /\ workspaceFolders = <<FolderA>>
    /\ excludedWorkspaces = <<>>
    /\ includedWorkspaces = <<>>

NextLedger ==
    \/ ExtensionActivate /\ UNCHANGED scriptVars
    \/ TabsChanged /\ UNCHANGED scriptVars
    \/ TimerTick /\ UNCHANGED scriptVars
    \/ CloseUnusedTabsCommand /\ UNCHANGED scriptVars

SpecLedger == InitLedger /\ [][NextLedger]_vars

(***************************************************************************)
(* The timer against the settings: the tabs open at startup stay open, the *)
(* user edits the activation mode and the age, and the change              *)
(* notifications are delivered late or not at all.                         *)
(***************************************************************************)
InitTick ==
    /\ Init
    /\ workspaceFile = Null
    /\ excludedWorkspaces \in {<<>>, <<FolderA>>}
    /\ includedWorkspaces \in {<<>>, <<FolderA>>}

NextTick ==
    \/ ExtensionActivate /\ UNCHANGED scriptVars
    \/ \E section \in {ActivationSection, TabAgeSection} :
           UserEditsSetting(section) /\ UNCHANGED scriptVars
    \/ ConfigurationChanged /\ UNCHANGED scriptVars
    \/ TimerTick /\ UNCHANGED scriptVars

SpecTick == InitTick /\ [][NextTick]_vars

(***************************************************************************)
(* The round trip: activate(), the two commands one after the other on the *)
(* same workspace, each setting write applied before the next command      *)
(* reads the settings.  scriptOrig keeps the override lists as they were   *)
(* before the first command.                                               *)
(***************************************************************************)
InitRoundTrip ==
    /\ InitProgram(ListsUpTo(MaxList))
    /\ OpenTabs = {}
    /\ tabAgeForAutomaticClosing = 0
    /\ scriptPc = "start"
    /\ scriptOrig = <<>>

NextRoundTrip ==
    \/ /\ scriptPc = "start"
       /\ ExtensionActivate
       /\ scriptPc' = "activated"
       /\ UNCHANGED scriptOrig
    \/ /\ scriptPc = "activated"
       /\ ActivateCommand
       /\ scriptPc' = "activate issued"
       /\ scriptOrig' = <<excludedWorkspaces, includedWorkspaces>>
    \/ /\ scriptPc = "activate issued"
       /\ SettingWriteApplied
       /\ scriptPc' = "activate applied"
       /\ UNCHANGED scriptOrig
    \/ /\ scriptPc = "activate applied"
       /\ DeactivateCommand
       /\ scriptPc' = "deactivate issued"
       /\ UNCHANGED scriptOrig
    \/ /\ scriptPc = "deactivate issued"
       /\ SettingWriteApplied
       /\ scriptPc' = "done"
       /\ UNCHANGED scriptOrig

SpecRoundTrip == InitRoundTrip /\ [][NextRoundTrip]_vars

(***************************************************************************)
(* Properties.                                                             *)
(***************************************************************************)
DefaultActiveMode == activation # "nowhere-except-included"
DefaultInactiveMode == activation = "nowhere-except-included"
HasIdentifier == getWorkspaceUri # Null

\* C1: in default-active mode isActiveInWorkspace returns false exactly when
\* the workspace has an identifier and excluded-workspaces holds it; without
\* an identifier it returns true; whatever included-workspaces holds, the
\* result is the same.
C1_DefaultActiveResolution ==
    DefaultActiveMode =>
        /\ (~isActiveInWorkspace) <=>
               (HasIdentifier /\ getWorkspaceUri \in Range(excludedWorkspaces))
        /\ ~HasIdentifier => isActiveInWorkspace
        /\ \A included \in ListsUpTo(MaxList) :
               isActiveInWorkspaceOf(getWorkspaceUri, isActiveByDefault,
                                     excludedWorkspaces, included)
                   = isActiveInWorkspace

\* C1 witness: the extension published "inactive" for an excluded workspace
\* in default-active mode although included-workspaces holds the identifier.
C1_Witness ==
    /\ Running
    /\ DefaultActiveMode
    /\ HasIdentifier
    /\ getWorkspaceUri \in Range(excludedWorkspaces)
    /\ getWorkspaceUri \in Range(includedWorkspaces)
    /\ configEvents = {}
    /\ activeInWorkspace = FALSE

\* C2: in default-inactive mode isActiveInWorkspace returns true exactly when
\* the workspace has an identifier and included-workspaces holds it; without
\* an identifier it returns false; whatever excluded-workspaces holds, the
\* result is the same.
C2_DefaultInactiveResolution ==
    DefaultInactiveMode =>
        /\ isActiveInWorkspace <=>
               (HasIdentifier /\ getWorkspaceUri \in Range(includedWorkspaces))
        /\ ~HasIdentifier => ~isActiveInWorkspace
        /\ \A excluded \in ListsUpTo(MaxList) :
               isActiveInWorkspaceOf(getWorkspaceUri, isActiveByDefault,
                                     excluded, includedWorkspaces)
                   = isActiveInWorkspace

\* C2 witness: the extension published "active" for an included workspace in
\* default-inactive mode although excluded-workspaces holds the identifier.
C2_Witness ==
    /\ Running
    /\ DefaultInactiveMode
    /\ HasIdentifier
    /\ getWorkspaceUri \in Range(includedWorkspaces)
    /\ getWorkspaceUri \in Range(excludedWorkspaces)
    /\ configEvents = {}
    /\ activeInWorkspace = TRUE

\* The workspace resolved inactive before the round trip's first command
\* (by the decision table, on the lists kept in scriptOrig).
InactiveBeforeRoundTrip ==
    IF DefaultActiveMode
    THEN getWorkspaceUri \in Range(scriptOrig[1])
    ELSE getWorkspaceUri \notin Range(scriptOrig[2])

\* C3 as claimed: after activate() then deactivate() both override lists
\* hold exactly what they held before, whatever the mode and the lists.
C3_RoundTripRestoresLists ==
    scriptPc = "done" =>
        <<excludedWorkspaces, includedWorkspaces>> = scriptOrig

\* C3 as amended: after activate() then deactivate() the list of the other
\* mode is untouched; if the workspace resolved inactive before, the list of
\* the current mode holds the same set of identifiers as before (in
\* default-inactive mode the very same list); if it resolved active before,
\* the round trip leaves the identifier appended to excluded-workspaces
\* (default-active) or removed from included-workspaces (default-inactive).
C3_RoundTripAmended ==
    scriptPc = "done" =>
        IF DefaultActiveMode
        THEN /\ includedWorkspaces = scriptOrig[2]
             /\ InactiveBeforeRoundTrip =>
                    Range(excludedWorkspaces) = Range(scriptOrig[1])
             /\ ~InactiveBeforeRoundTrip =>
                    excludedWorkspaces = Append(scriptOrig[1], getWorkspaceUri)
        ELSE /\ excludedWorkspaces = scriptOrig[1]
             /\ InactiveBeforeRoundTrip =>
                    includedWorkspaces = scriptOrig[2]
             /\ ~InactiveBeforeRoundTrip =>
                    /\ getWorkspaceUri \notin Range(includedWorkspaces)
                    /\ Range(includedWorkspaces) =
                           Range(scriptOrig[2]) \ {getWorkspaceUri}

\* C3 witness: a finished round trip in default-inactive mode of a workspace
\* that was not included, next to an entry of another workspace.
C3_Witness ==
    /\ scriptPc = "done"
    /\ DefaultInactiveMode
    /\ InactiveBeforeRoundTrip
    /\ scriptOrig[2] # <<>>
    /\ includedWorkspaces = scriptOrig[2]

\* C4 as claimed: neither override list ever holds an identifier twice.
C4_ListsAreSets ==
    /\ IsDuplicateFree(excludedWorkspaces)
    /\ IsDuplicateFree(includedWorkspaces)

\* C5: without a workspace identifier activate() and deactivate() change no
\* setting, issue no setting write and show their notice.
C5_NoIdentifierNoOp ==
    [][ /\ (~HasIdentifier /\ ActivateCommand) =>
            /\ UNCHANGED <<settingVars, pendingWrites>>
            /\ informationMessage' = CannotActivateMessage
        /\ (~HasIdentifier /\ DeactivateCommand) =>
            /\ UNCHANGED <<settingVars, pendingWrites>>
            /\ informationMessage' = CannotDeactivateMessage ]_vars

\* C5 witness: deactivate() was invoked without an identifier: its notice is
\* on screen and no write is in flight.
C5_Witness ==
    /\ ~HasIdentifier
    /\ informationMessage = CannotDeactivateMessage
    /\ pendingWrites = <<>>


\* C6: while the extension runs, every open tab has an age counter equal to
\* the number of ticks since its last opened or changed event (or since the
\* startup scan), and a tab that is not open has no counter.
C6_AgeCountsTicks ==
    Running =>
        /\ \A t \in OpenTabs :
               /\ t \in DOMAIN tabTimeCounters
               /\ tabTimeCounters[t] = ticksSinceEvent[t]
        /\ \A t \in TabIds \ OpenTabs : t \notin DOMAIN tabTimeCounters

\* C6 witness: one tab aged over every tick, another was reset a tick ago,
\* and a third tab is closed.
C6_Witness ==
    /\ Running
    /\ \E t, u \in OpenTabs :
           /\ tabTimeCounters[t] = MaxAge
           /\ tabTimeCounters[u] = 1
    /\ OpenTabs # TabIds

\* C7: a closing pass over at least one open tab, run by the timer or by the
\* command, leaves at least one open tab without a close request.
C7_PassSparesATab ==
    (lastPass.ran /\ OpenTabs # {}) =>
        \E t \in OpenTabs : t \notin lastPass.closed

\* C7 witness: a timer pass in which every open tab had reached a threshold
\* above 0 asked to close all tabs but one.
C7_Witness ==
    /\ lastPass.ran
    /\ lastPass.by = "timer"
    /\ lastPass.threshold > 0
    /\ Cardinality(OpenTabs) >= 2
    /\ \A t \in OpenTabs : tabTimeCounters[t] >= lastPass.threshold
    /\ Cardinality(lastPass.closed) = Cardinality(OpenTabs) - 1

\* The tab at position i of the iteration order is the first youngest one.
IsFirstYoungestAt(i) ==
    /\ \A j \in DOMAIN AllTabs :
           tabTimeCounters[AllTabs[i]] <= tabTimeCounters[AllTabs[j]]
    /\ \A j \in 1..(i - 1) :
           tabTimeCounters[AllTabs[j]] > tabTimeCounters[AllTabs[i]]

\* C8: a closing pass with threshold 0 (the command's pass, or a timer pass
\* with the age set to 0) over N >= 2 open tabs asks to close exactly N - 1
\* of them and spares the first tab, in iteration order, of smallest age.
C8_ThresholdZeroClosesAllButOne ==
    ( /\ lastPass.ran
      /\ lastPass.by = "command" \/ lastPass.threshold = 0
      /\ Cardinality(OpenTabs) >= 2 ) =>
        /\ lastPass.closed \subseteq OpenTabs
        /\ Cardinality(lastPass.closed) = Cardinality(OpenTabs) - 1
        /\ \E i \in DOMAIN AllTabs :
               /\ AllTabs[i] \notin lastPass.closed
               /\ IsFirstYoungestAt(i)

\* C8 witness: the command ran over three open tabs while the configured age
\* is above 0; two tabs tie for the smallest age, and the one spared comes
\* first in iteration order although its identity is the larger one.
C8_Witness ==
    /\ lastPass.ran
    /\ lastPass.by = "command"
    /\ tabAgeForAutomaticClosing > 0
    /\ Cardinality(OpenTabs) = 3
    /\ Cardinality(lastPass.closed) = 2
    /\ \E t, u \in OpenTabs :
           /\ t > u
           /\ tabTimeCounters[t] = tabTimeCounters[u]
           /\ t \notin lastPass.closed
           /\ u \in lastPass.closed

\* C9: a timer tick runs the closing pass exactly when isActiveInWorkspace,
\* on the settings and the identifier of that tick, returns true; a tick in
\* a workspace that resolves inactive issues no close request.
C9_TickPassIffActive ==
    lastPass.by = "timer" =>
        /\ lastPass.ran <=> isActiveInWorkspace
        /\ ~isActiveInWorkspace => lastPass.closed = {}

\* C9 witness: the published flag still says "active", the settings resolve
\* inactive, and the tick ran no pass over a tab old enough to be closed.
C9_Witness ==
    /\ lastPass.by = "timer"
    /\ ~lastPass.ran
    /\ activeInWorkspace = TRUE
    /\ ~isActiveInWorkspace
    /\ \E t, u \in OpenTabs :
           /\ t # u
           /\ tabTimeCounters[t] >= tabAgeForAutomaticClosing

\* The sections the configuration listener watches.
WatchedSections == {ActivationSection, ExcludedSection, IncludedSection}

\* C10: while the extension runs and no change notification of a watched
\* setting is outstanding, the published flag equals what
\* isActiveInWorkspace returns for the current settings.
C10_FlagTracksResolver ==
    (Running /\ configEvents \cap WatchedSections = {}) =>
        activeInWorkspace = isActiveInWorkspace

\* C10 witness: activate() appended the identifier to included-workspaces a
\* second time (no list the user wrote holds it twice), the write was
\* applied, its notification was handled, and the flag says "active".
C10_Witness ==
    /\ Running
    /\ configEvents = {}
    /\ pendingWrites = <<>>
    /\ DefaultInactiveMode
    /\ includedWorkspaces = <<getWorkspaceUri, getWorkspaceUri>>
    /\ activeInWorkspace = TRUE


(***************************************************************************)
(* The lifecycle: activate() and deactivate() are called in any order and  *)
(* any number of times, and every running timer fires.                     *)
(***************************************************************************)
InitLifecycle == InitLedger

NextLifecycle ==
    \/ ActivateCalled /\ UNCHANGED scriptVars
    \/ DeactivateCalled /\ UNCHANGED scriptVars
    \/ TimerTick /\ UNCHANGED scriptVars

SpecLifecycle == InitLifecycle /\ [][NextLifecycle]_vars

\* C11 as claimed: whatever activate() and deactivate() calls came before,
\* when deactivate() returns no timer started by activate() is running any
\* more, and a deactivate() after a deactivate() changes nothing.
C11_NoTimerAfterDeactivate ==
    [][ DeactivateCalled =>
            /\ liveTimers' = 0
            /\ interval = "cleared" =>
                   UNCHANGED <<timerVars, settingVars, activeInWorkspace, tabVars>> ]_vars


\* C12: the command "close unused tabs" always runs a closing pass, with
\* threshold 0 whatever the configured age is: of the open tabs at most one
\* is left without a close request, however young the tabs are.
C12_CommandPassUsesZero ==
    lastPass.by = "command" =>
        /\ lastPass.ran
        /\ lastPass.threshold = 0
        /\ Cardinality(OpenTabs \ lastPass.closed) <= 1

\* C12 witness: the configured age is the largest one, and the command asked
\* to close a tab that was reset after the last tick.
C12_Witness ==
    /\ lastPass.by = "command"
    /\ tabAgeForAutomaticClosing = MaxAge
    /\ \E t \in lastPass.closed : tabTimeCounters[t] = 0
    /\ \E t \in OpenTabs \ lastPass.closed : tabTimeCounters[t] = 0

\* The tab is a closing candidate of the pass just run: it got a close
\* request, or every open tab was a candidate and it is the one spared.
IsCandidateOfLastPass(t) ==
    \/ t \in lastPass.closed
    \/ lastPass.closed = OpenTabs \ {t}

\* C13: a timer tick adds exactly 1 to the counter of every open tab in every
\* group and only then runs its closing pass, in one step: a tab whose age was
\* one below the threshold before the tick is a candidate of that tick's pass.
C13_IncrementThenClose ==
    [][ TimerTick =>
            /\ \A t \in OpenTabs :
                   /\ t \in DOMAIN tabTimeCounters
                   /\ tabTimeCounters'[t] = tabTimeCounters[t] + 1
            /\ lastPass'.ran =>
                   \A t \in OpenTabs :
                       tabTimeCounters[t] = lastPass'.threshold - 1 =>
                           \/ t \in lastPass'.closed
                           \/ lastPass'.closed = OpenTabs \ {t} ]_vars

\* C13 witness: a timer pass with a threshold above 0 asked to close a tab
\* that reached the threshold in this very tick, and left open a tab of
\* another group that is still below it.
C13_Witness ==
    /\ lastPass.by = "timer"
    /\ lastPass.ran
    /\ lastPass.threshold > 0
    /\ \E t \in lastPass.closed, u \in OpenTabs \ lastPass.closed :
           /\ tabTimeCounters[t] = lastPass.threshold
           /\ tabTimeCounters[u] = lastPass.threshold - 1
           /\ GroupOf(t) # GroupOf(u)

\* The threshold the pass just run had to use: the configured age for the
\* timer, 0 for the command.
ThresholdOfLastPass ==
    IF lastPass.by = "timer" THEN tabAgeForAutomaticClosing ELSE 0

\* C14: a closing pass with threshold T asks to close no tab whose age is
\* below T, and asks to close every open tab whose age is at least T, except
\* one such tab when every open tab has reached T.
C14_PassClosesByAge ==
    lastPass.ran =>
        /\ lastPass.closed \subseteq OpenTabs
        /\ \A t \in lastPass.closed : tabTimeCounters[t] >= ThresholdOfLastPass
        /\ IF \A t \in OpenTabs : tabTimeCounters[t] >= ThresholdOfLastPass
           THEN Cardinality(OpenTabs \ lastPass.closed) = (IF OpenTabs = {} THEN 0 ELSE 1)
           ELSE \A t \in OpenTabs :
                    tabTimeCounters[t] >= ThresholdOfLastPass => t \in lastPass.closed

\* C14 witness: a timer pass with the largest threshold asked to close two
\* tabs and left open a tab one tick below the threshold.
C14_Witness ==
    /\ lastPass.ran
    /\ lastPass.by = "timer"
    /\ tabAgeForAutomaticClosing = MaxAge
    /\ Cardinality(lastPass.closed) = 2
    /\ \E u \in OpenTabs \ lastPass.closed : tabTimeCounters[u] = MaxAge - 1


(***************************************************************************)
(* The closing pass against the host: the host answers each close request  *)
(* by closing the tab or by leaving it open, while tabs are opened,        *)
(* changed and closed one at a time and the timer goes on.                 *)
(***************************************************************************)
InitClose == InitLedger

NextClose ==
    \/ ExtensionActivate /\ UNCHANGED scriptVars
    \/ OneTabChanged /\ UNCHANGED scriptVars
    \/ TimerTick /\ UNCHANGED scriptVars
    \/ CloseUnusedTabsCommand /\ UNCHANGED scriptVars
    \/ HostClosesTab /\ UNCHANGED scriptVars
    \/ HostRejectsClose /\ UNCHANGED scriptVars

SpecClose == InitClose /\ [][NextClose]_vars

\* C15: a closing pass and a rejected close request leave the ledger alone:
\* every open tab, the tabs with a pending or a rejected request among them,
\* keeps its counter at the number of ticks since its last event, and only a
\* tab the host reported closed has none; at the tick after a rejection the
\* tab's counter is one higher and the tab is a candidate again if its age
\* has reached the threshold; the requests of a pass stand one by one.
C15_RejectedCloseKeepsCounter ==
    Running =>
        /\ lastPass.closed \cup lastPass.rejected \cup lastPass.retry \subseteq OpenTabs
        /\ \A t \in OpenTabs :
               /\ t \in DOMAIN tabTimeCounters
               /\ tabTimeCounters[t] = ticksSinceEvent[t]
        /\ \A t \in lastPass.honoured : t \notin DOMAIN tabTimeCounters
        /\ \A t \in lastPass.retry :
               /\ tabTimeCounters[t] >= 1
               /\ (lastPass.ran /\ tabTimeCounters[t] >= ThresholdOfLastPass) =>
                      IsCandidateOfLastPass(t)

\* C15 witness: the host rejected a close request of a timer pass; at the
\* next tick the tab, now older than the threshold, got a new close request
\* next to a tab that reached the threshold only then.
C15_Witness ==
    /\ lastPass.by = "timer"
    /\ lastPass.ran
    /\ \E t \in lastPass.retry, u \in lastPass.closed \ lastPass.retry :
           /\ t \in lastPass.closed
           /\ tabTimeCounters[t] > lastPass.threshold
           /\ tabTimeCounters[u] = lastPass.threshold


(***************************************************************************)
(* One command: activate(), then one of the two commands, then its setting *)
(* write applied.  scriptOrig keeps the four settings as they were before  *)
(* the command, and the command's name.                                    *)
(***************************************************************************)
InitCommand ==
    /\ InitProgram(ListsUpTo(MaxList))
    /\ OpenTabs = {}
    /\ scriptPc = "start"
    /\ scriptOrig = <<>>

SettingsSnapshot ==
    <<excludedWorkspaces, includedWorkspaces, activation, tabAgeForAutomaticClosing>>

NextCommand ==
    \/ /\ scriptPc = "start"
       /\ ExtensionActivate
       /\ scriptPc' = "ready"
       /\ UNCHANGED scriptOrig
    \/ /\ scriptPc = "ready"
       /\ ActivateCommand
       /\ scriptPc' = "issued"
       /\ scriptOrig' = Append(SettingsSnapshot, "activate")
    \/ /\ scriptPc = "ready"
       /\ DeactivateCommand
       /\ scriptPc' = "issued"
       /\ scriptOrig' = Append(SettingsSnapshot, "deactivate")
    \/ /\ scriptPc = "issued"
       /\ SettingWriteApplied
       /\ scriptPc' = "applied"
       /\ UNCHANGED scriptOrig

SpecCommand == InitCommand /\ [][NextCommand]_vars

\* C16: once the write of activate() or deactivate() is applied, the
\* activation mode, the age and the override list of the other mode are as
\* before the command, and the list of the current mode differs from what it
\* was only in entries equal to the workspace identifier: the entries of
\* other workspaces are all there, in their order.
C16_CommandFrame ==
    scriptPc = "applied" =>
        /\ activation = scriptOrig[3]
        /\ tabAgeForAutomaticClosing = scriptOrig[4]
        /\ IF DefaultActiveMode
           THEN /\ includedWorkspaces = scriptOrig[2]
                /\ filterOut(excludedWorkspaces, getWorkspaceUri)
                       = filterOut(scriptOrig[1], getWorkspaceUri)
           ELSE /\ excludedWorkspaces = scriptOrig[1]
                /\ filterOut(includedWorkspaces, getWorkspaceUri)
                       = filterOut(scriptOrig[2], getWorkspaceUri)

\* C16 witness: deactivate() in default-active mode in the saved workspace,
\* with another workspace excluded before it and included-workspaces not
\* empty.
C16_Witness ==
    /\ scriptPc = "applied"
    /\ scriptOrig[5] = "deactivate"
    /\ DefaultActiveMode
    /\ getWorkspaceUri = SavedWorkspaceFile
    /\ scriptOrig[1] = <<FolderA>>
    /\ excludedWorkspaces = <<FolderA, SavedWorkspaceFile>>
    /\ includedWorkspaces # <<>>
    /\ tabAgeForAutomaticClosing > 0

\* C19: with a workspace identifier, once the write of activate() is applied
\* isActiveInWorkspace returns true, and once the write of deactivate() is
\* applied it returns false, whatever the mode and whatever the override
\* lists held before (also when they held the identifier more than once).
C19_CommandsAchieveGoal ==
    (scriptPc = "applied" /\ HasIdentifier) =>
        (isActiveInWorkspace <=> scriptOrig[5] = "activate")

\* C19 witness: activate() in default-active mode of a workspace that
\* excluded-workspaces held twice.
C19_Witness ==
    /\ scriptPc = "applied"
    /\ scriptOrig[5] = "activate"
    /\ DefaultActiveMode
    /\ HasIdentifier
    /\ scriptOrig[1] = <<getWorkspaceUri, getWorkspaceUri>>
    /\ isActiveInWorkspace


(***************************************************************************)
(* Two commands in a hurry: activate(), then two commands of which the     *)
(* second runs before the write of the first is applied, then the two      *)
(* writes applied in the order issued and their notifications delivered.   *)
(* scriptOrig keeps the four settings as they were before the first        *)
(* command, and the names of the two commands.                             *)
(***************************************************************************)
InitRace ==
    /\ InitProgram(ListsUpTo(MaxList))
    /\ OpenTabs = {}
    /\ tabAgeForAutomaticClosing = 0
    /\ scriptPc = "start"
    /\ scriptOrig = <<>>

NextRace ==
    \/ /\ scriptPc = "start"
       /\ ExtensionActivate
       /\ scriptPc' = "ready"
       /\ UNCHANGED scriptOrig
    \/ /\ scriptPc = "ready"
       /\ ActivateCommand
       /\ scriptPc' = "first issued"
       /\ scriptOrig' = Append(SettingsSnapshot, "activate")
    \/ /\ scriptPc = "ready"
       /\ DeactivateCommand
       /\ scriptPc' = "first issued"
       /\ scriptOrig' = Append(SettingsSnapshot, "deactivate")
    \/ /\ scriptPc = "first issued"
       /\ ActivateCommand
       /\ scriptPc' = "both issued"
       /\ scriptOrig' = Append(scriptOrig, "activate")
    \/ /\ scriptPc = "first issued"
       /\ DeactivateCommand
       /\ scriptPc' = "both issued"
       /\ scriptOrig' = Append(scriptOrig, "deactivate")
    \/ /\ scriptPc = "both issued"
       /\ SettingWriteApplied
       /\ scriptPc' = "first applied"
       /\ UNCHANGED scriptOrig
    \/ /\ scriptPc = "first applied"
       /\ SettingWriteApplied
       /\ scriptPc' = "both applied"
       /\ UNCHANGED scriptOrig
    \/ /\ scriptPc \in {"first applied", "both applied"}
       /\ ConfigurationChanged
       /\ UNCHANGED scriptVars

SpecRace == InitRace /\ [][NextRace]_vars

\* The override lists <<excluded, included>> after the named command ran on
\* `lists` and its write was applied.
ListsAfterCommand(command, workspaceUri, activeByDefault, lists) ==
    IF command = "activate"
    THEN IF activeByDefault
         THEN <<filterOut(lists[1], workspaceUri), lists[2]>>
         ELSE <<lists[1], Append(lists[2], workspaceUri)>>
    ELSE IF activeByDefault
         THEN <<Append(lists[1], workspaceUri), lists[2]>>
         ELSE <<lists[1], filterOut(lists[2], workspaceUri)>>

\* The override lists after the two commands of the script, had each run
\* after the write of the one before was applied.
OneAfterAnother ==
    ListsAfterCommand(scriptOrig[6], getWorkspaceUri, isActiveByDefault,
        ListsAfterCommand(scriptOrig[5], getWorkspaceUri, isActiveByDefault,
            <<scriptOrig[1], scriptOrig[2]>>))

\* C17 as claimed: the configuration listener issues and applies no setting
\* write, and when the second of two commands runs before the write of the
\* first is applied, the override lists end as they would have, had the
\* commands run one after another.
C17_RapidCommandsAsSequential ==
    [][ /\ ConfigurationChanged => UNCHANGED <<settingVars, pendingWrites>>
        /\ scriptPc' = "both applied" =>
               <<excludedWorkspaces', includedWorkspaces'>> = OneAfterAnother ]_vars


\* A saved workspace file is open.
SavedWorkspaceOpen == workspaceFile # Null /\ workspaceFile[1] # "untitled"

\* An untitled workspace file is open.
UntitledWorkspaceOpen == workspaceFile # Null /\ workspaceFile[1] = "untitled"

\* Without an identifier the resolver answers by the mode alone, whatever
\* the override lists hold.
NeverMatchesAList ==
    \A excluded, included \in ListsUpTo(MaxList) :
        isActiveInWorkspaceOf(getWorkspaceUri, isActiveByDefault, excluded, included)
            = DefaultActiveMode

\* C18 as claimed: the identifier is the URI of the saved workspace file;
\* without a workspace file it is the URI of the only folder; an untitled
\* workspace file, and a context of no or several folders without a saved
\* workspace file, has no identifier and matches no entry of either list.
C18_IdentifierOfWorkspace ==
    /\ SavedWorkspaceOpen => getWorkspaceUri = workspaceFile
    /\ (workspaceFile = Null /\ Len(workspaceFolders) = 1) =>
           getWorkspaceUri = workspaceFolders[1]
    /\ (UntitledWorkspaceOpen \/ (~SavedWorkspaceOpen /\ Len(workspaceFolders) # 1)) =>
           /\ getWorkspaceUri = Null
           /\ NeverMatchesAList

\* C18 as amended: the identifier is the URI of the saved workspace file;
\* without a saved workspace file (none, or an untitled one) it is the URI
\* of the only folder when exactly one folder is open; without a saved
\* workspace file and with no or several folders there is no identifier,
\* and then the workspace matches no entry of either list.
C18_IdentifierAmended ==
    /\ SavedWorkspaceOpen => getWorkspaceUri = workspaceFile
    /\ (~SavedWorkspaceOpen /\ Len(workspaceFolders) = 1) =>
           getWorkspaceUri = workspaceFolders[1]
    /\ (~SavedWorkspaceOpen /\ Len(workspaceFolders) # 1) =>
           /\ getWorkspaceUri = Null
           /\ NeverMatchesAList
    /\ getWorkspaceUri # UntitledWorkspaceFile

\* C18 witness: an untitled workspace of one folder in default-inactive
\* mode; included-workspaces holds the folder, and activate() published
\* "active".
C18_Witness ==
    /\ Running
    /\ UntitledWorkspaceOpen
    /\ workspaceFolders = <<FolderA>>
    /\ DefaultInactiveMode
    /\ FolderA \in Range(includedWorkspaces)
    /\ activeInWorkspace = TRUE


(***************************************************************************)
(* Aging across activation: the user switches the activation mode while    *)
(* tabs are opened, changed and closed one at a time and the timer goes    *)
(* on.  scriptPc follows the ticks: "aged inactive" after a tick in a      *)
(* workspace that resolved inactive, "first active tick" after the first   *)
(* tick that found it active again.                                        *)
(***************************************************************************)
InitAging ==
    /\ InitProgram({<<>>, <<FolderA>>})
    /\ workspaceFile = Null
    /\ workspaceFolders = <<FolderA>>
    /\ scriptPc = "start"
    /\ scriptOrig = <<>>

\* The phase after a tick, and after any other step.
PhaseAfterTick ==
    IF ~isActiveInWorkspace THEN "aged inactive"
    ELSE IF scriptPc = "aged inactive" THEN "first active tick"
    ELSE "running"

PhaseAfterOther ==
    IF scriptPc = "first active tick" THEN "running" ELSE scriptPc

NextAging ==
    \/ /\ scriptPc = "start"
       /\ ExtensionActivate
       /\ scriptPc' = "running"
       /\ UNCHANGED scriptOrig
    \/ /\ TimerTick
       /\ scriptPc' = PhaseAfterTick
       /\ UNCHANGED scriptOrig
    \/ /\ UserEditsSetting(ActivationSection)
       /\ scriptPc' = PhaseAfterOther
       /\ UNCHANGED scriptOrig
    \/ /\ OneTabChanged
       /\ scriptPc' = PhaseAfterOther
       /\ UNCHANGED scriptOrig

SpecAging == InitAging /\ [][NextAging]_vars

\* C20: every tick adds 1 to the counter of every open tab, also while the
\* workspace resolves inactive: a counter always equals the ticks since the
\* tab's last event.  A tick in an inactive workspace issues no request, and
\* the first tick that finds the workspace active runs a pass of which
\* every tab with an age of at least the threshold is a candidate.
C20_AgingIgnoresActivation ==
    Running =>
        /\ \A t \in OpenTabs :
               /\ t \in DOMAIN tabTimeCounters
               /\ tabTimeCounters[t] = ticksSinceEvent[t]
        /\ (scriptPc = "aged inactive" /\ lastPass.by = "timer") =>
               ~lastPass.ran /\ lastPass.closed = {}
        /\ scriptPc = "first active tick" =>
               /\ lastPass.ran
               /\ \A t \in OpenTabs :
                      tabTimeCounters[t] >= tabAgeForAutomaticClosing =>
                          IsCandidateOfLastPass(t)

\* C20 witness: with the age set to 1, a tab reached age 1 in a tick that
\* found the workspace inactive and stayed open; the next tick found the
\* workspace active and asked to close the tab, now of age 2, next to a tab
\* reset between the two ticks.
C20_Witness ==
    /\ scriptPc = "first active tick"
    /\ tabAgeForAutomaticClosing = 1
    /\ \E t, u \in lastPass.closed :
           /\ tabTimeCounters[t] = 2
           /\ tabTimeCounters[u] = 1
    /\ OpenTabs # lastPass.closed

====
